---- MODULE Spec2Model ----
(***************************************************************************)
(* Model of the deadlock laboratory: the lock-based scenarios (Deadlock,   *)
(* Ordered, Retry) with their workers and the parent that joins them, and  *)
(* the Banker scenario with its workers and the Banker engine; and the     *)
(* discrete-time simulator with its lock manager and deadlock detector.    *)
(*                                                                         *)
(* Workers are numbered 1..workers; worker w is the one the code names     *)
(* P{w}, built at index w-1 of build_workers.  Resources (locks, classes)  *)
(* are numbered 1..resource_count; resource r is index r-1 of the code.    *)
(***************************************************************************)
EXTENDS Integers, Sequences, FiniteSets, TLC

\* ------------------------------------------------------------------ bounds
MaxWorkers == 3
MaxResources == 2
MaxUnits == 2
\* The retries counter of a worker is unbounded in the code.  The model
\* saturates it at MaxRetries: the step that increments it is never disabled
\* by the bound, so no behaviour of the code is cut off.
MaxRetries == 2
\* The Banker scenario is explored for the configurations whose claim matrix can
\* hold at most MaxClaimUnits units: workers * resource_count * resource_units.
MaxClaimUnits == 6
\* The simulator is run with max_steps in 0..MaxSteps and with the default.
MaxSteps == 3
\* max_steps: int = 50
max_steps_default == 50
\* The wait-for graphs handed to the detector have nodes 1..MaxNodes and at
\* most MaxEdges edges.
MaxNodes == 4
MaxEdges == 4

VARIABLES
    scenario,        \* "deadlock" | "ordered" | "retry" | "banker"
    workers,         \* Scenario.workers
    resource_count,  \* Scenario.resource_count
    resource_units,  \* BankerScenario.resource_units
    hold_time,       \* Scenario.hold_time, handed to every worker
    locked,          \* locked[r]: the mp.Lock of resource r is locked
    held,            \* held[w]: locks w has acquired and not released since
    pc,              \* pc[w]: position of worker w in run()
    idx,             \* idx[w]: 1-based position of w in its acquisition loop
    acquired,        \* acquired[w]: the local list `acquired` of run()
    retries,         \* Worker.retries
    metrics_queue,   \* metrics_queue[w]: statuses of the records put by w
    claims,          \* Banker max-claim matrix C
    allocation,      \* Banker allocation matrix A
    remaining,       \* remaining[w]: the local list `remaining` of BankerWorker.run
    parentPc,        \* position of the parent in wait_processes / run
    joinIdx,         \* process the parent joins next
    completed,       \* local counter `completed` of wait_processes
    stuck,           \* local list `stuck` of DeadlockScenario.wait_processes
    mode,            \* Simulator.mode: "naive" | "ordered"
    max_steps,       \* Simulator.max_steps
    processes,       \* Simulator.processes: the list of Process objects
    resources,       \* Simulator.resources: resources[r] is held_by of resource r
    t,               \* loop variable of Simulator.run: ticks completed so far
    simPc,           \* position of the simulator in run() / step()
    procIdx,         \* position of the loop of step() in self.processes
    deadlock_found,  \* local `deadlock_found` of Simulator.run
    cycle,           \* the cycle the last detect_deadlock of step() returned
    tick_log,        \* the lines request() and _complete_process() printed in this tick
    graph,           \* the wait-for graph handed to DeadlockDetector._find_cycle
    detection        \* what detect_deadlock returned for `graph`

vars == <<scenario, workers, resource_count, resource_units, hold_time, locked,
          held, pc, idx, acquired, retries, metrics_queue, claims, allocation,
          remaining, parentPc, joinIdx, completed, stuck, mode, max_steps,
          processes, resources, t, simPc, procIdx, deadlock_found, cycle,
          tick_log, graph, detection>>

lockVars == <<locked, held, idx, acquired>>
bankerVars == <<claims, allocation, remaining>>
parentVars == <<parentPc, joinIdx, completed, stuck>>
configVars == <<scenario, workers, resource_count, resource_units, hold_time>>
detectorVars == <<graph, detection>>
simulatorVars == <<mode, max_steps, processes, resources, t, simPc, procIdx,
                   deadlock_found, cycle, tick_log>>
simVars == <<simulatorVars, detectorVars>>
coreVars == <<configVars, lockVars, pc, retries, metrics_queue, bankerVars, parentVars>>

\* hold_time is a float no constructor validates.  time.sleep(x) raises
\* ValueError for x < 0 and returns for x >= 0: the model keeps one value of
\* each kind.
HoldTimes == {-1, 1}
ValidHoldTimes == {h \in HoldTimes : h >= 0}

\* time.sleep(x) raises ValueError ("sleep length must be non-negative").
sleep_raises(x) == x < 0

AllWorkers == 1..MaxWorkers
AllResources == 1..MaxResources
Workers == 1..workers
Resources == 1..resource_count

\* A worker's process (or thread) is alive until run() returns, raises or the
\* process is terminated.
is_alive(w) == pc[w] \notin {"done", "raised", "killed"}

increment_retry(n) == IF n < MaxRetries THEN n + 1 ELSE n

\* ------------------------------------------------- acquisition orders
Ascending == [i \in Resources |-> i]
Descending == [i \in Resources |-> resource_count + 1 - i]

\* DeadlockScenario.build_workers: even code index ascending, odd descending.
DeadlockScenario_build_workers(w) ==
    IF (w - 1) % 2 = 0 THEN Ascending ELSE Descending

\* The order of a worker when the Ordered scenario alternated the orders like
\* the Deadlock scenario.
OrderedScenario_alternating(w) ==
    IF (w - 1) % 2 = 0 THEN Ascending ELSE Descending

\* OrderedScenario.build_workers: every worker gets `locks` as it is.
OrderedScenario_build_workers(w) == Ascending

\* RetryScenario.build_workers: the alternating orders of the deadlock scenario.
RetryScenario_build_workers(w) ==
    IF (w - 1) % 2 = 0 THEN Ascending ELSE Descending

\* self.locks of worker w, as resource numbers.
locks(w) ==
    CASE scenario = "deadlock" -> DeadlockScenario_build_workers(w)
      [] scenario = "ordered" -> OrderedScenario_build_workers(w)
      [] scenario = "retry" -> RetryScenario_build_workers(w)
      [] OTHER -> <<>>

\* The lock worker w asks for next.
NextLock(w) == locks(w)[idx[w]]

\* The resources named by the list `acquired`, last acquired first.
RECURSIVE reversed(_)
reversed(s) == IF s = <<>> THEN <<>> ELSE Append(reversed(Tail(s)), Head(s))

\* ------------------------------------------------------------- Init
\* Python's None.
None == [is_none |-> TRUE, list |-> <<>>]

\* No detector call is under way.
InitNoDetector ==
    /\ graph = [keys |-> <<>>, nbrs |-> <<>>]
    /\ detection = [called |-> FALSE, deadlock |-> FALSE, edges |-> {}, cycle |-> <<>>]

\* No simulator is built.
InitNoSimulator ==
    /\ mode = "none"
    /\ max_steps = 0
    /\ processes = <<>>
    /\ resources = <<>>
    /\ t = 0
    /\ simPc = "absent"
    /\ procIdx = 1
    /\ deadlock_found = FALSE
    /\ cycle = <<>>
    /\ tick_log = <<>>

InitWorkers ==
    /\ InitNoSimulator
    /\ InitNoDetector
    /\ locked = [r \in AllResources |-> FALSE]
    /\ held = [w \in AllWorkers |-> {}]
    /\ pc = [w \in AllWorkers |-> IF w \in Workers THEN "acquire" ELSE "absent"]
    /\ idx = [w \in AllWorkers |-> 1]
    /\ acquired = [w \in AllWorkers |-> <<>>]
    /\ retries = [w \in AllWorkers |-> 0]
    /\ metrics_queue = [w \in AllWorkers |-> <<>>]
    /\ parentPc = "join"
    /\ joinIdx = 1
    /\ completed = 0
    /\ stuck = {}

InitNoBanker ==
    /\ resource_units = 1
    /\ claims = [w \in AllWorkers |-> [r \in AllResources |-> 0]]
    /\ allocation = [w \in AllWorkers |-> [r \in AllResources |-> 0]]
    /\ remaining = [w \in AllWorkers |-> [r \in AllResources |-> 0]]

\* A lock-based scenario of one of `kinds` with hold_time one of `times`.
InitLocksOf(kinds, times) ==
    /\ scenario \in kinds
    /\ workers \in 1..MaxWorkers
    /\ resource_count \in 1..MaxResources
    /\ hold_time \in times
    /\ InitWorkers
    /\ InitNoBanker

\* The scenarios as they are run: with a hold_time that is not negative.
InitLocks(kinds) == InitLocksOf(kinds, ValidHoldTimes)

\* record_end that puts the record twice.
record_end_twice(w, status) ==
    metrics_queue' = [metrics_queue EXCEPT ![w] = Append(Append(@, status), status)]

\* ------------------------------------------------------ Worker.record_end
record_end(w, status) ==
    metrics_queue' = [metrics_queue EXCEPT ![w] = Append(@, status)]

\* Releasing every lock of the sequence of positions `ps` of worker w, ignoring
\* the error of releasing an unlocked lock (try: release() except: pass).
ReleaseQuietly(w, ps) ==
    LET rs == {locks(w)[ps[i]] : i \in 1..Len(ps)}
    IN /\ locked' = [r \in AllResources |-> IF r \in rs THEN FALSE ELSE locked[r]]
       /\ held' = [held EXCEPT ![w] = @ \ rs]

\* acquire() that does not wait for a locked lock and counts it as acquired.
NaiveAcquire_no_wait(w) ==
    /\ w \in Workers
    /\ scenario \in {"deadlock", "ordered"}
    /\ pc[w] = "acquire"
    /\ locked' = [locked EXCEPT ![NextLock(w)] = TRUE]
    /\ held' = [held EXCEPT ![w] = @ \cup {NextLock(w)}]
    /\ acquired' = [acquired EXCEPT ![w] = Append(@, idx[w])]
    /\ IF idx[w] = resource_count
          THEN /\ pc' = [pc EXCEPT ![w] = "release"]
               /\ idx' = [idx EXCEPT ![w] = resource_count]
          ELSE /\ pc' = pc
               /\ idx' = [idx EXCEPT ![w] = @ + 1]
    /\ UNCHANGED <<retries, metrics_queue, bankerVars, parentVars, configVars, simVars>>

\* ------------------------------------------------------ NaiveWorker.run
\* lock.acquire() with no timeout: the worker waits until the lock is free;
\* acquired.append(idx); time.sleep(self.hold_time), whose ValueError goes to
\* the except block.
NaiveAcquire(w) ==
    /\ w \in Workers
    /\ scenario \in {"deadlock", "ordered"}
    /\ pc[w] = "acquire"
    /\ ~locked[NextLock(w)]
    /\ locked' = [locked EXCEPT ![NextLock(w)] = TRUE]
    /\ held' = [held EXCEPT ![w] = @ \cup {NextLock(w)}]
    /\ acquired' = [acquired EXCEPT ![w] = Append(@, idx[w])]
    /\ IF sleep_raises(hold_time)
          THEN /\ pc' = [pc EXCEPT ![w] = "except"]
               /\ idx' = idx
          ELSE IF idx[w] = resource_count
                  THEN /\ pc' = [pc EXCEPT ![w] = "release"]
                       /\ idx' = [idx EXCEPT ![w] = resource_count]
                  ELSE /\ pc' = pc
                       /\ idx' = [idx EXCEPT ![w] = @ + 1]
    /\ UNCHANGED <<retries, metrics_queue, bankerVars, parentVars, configVars, simVars>>

\* for idx in reversed(acquired): self.locks[idx].release(); idx[w] is the
\* position in `acquired` released next.  release() of an unlocked lock raises
\* ValueError, which goes to the except block.
NaiveRelease(w) ==
    /\ w \in Workers
    /\ scenario \in {"deadlock", "ordered"}
    /\ pc[w] = "release"
    /\ LET r == locks(w)[acquired[w][idx[w]]]
       IN IF locked[r]
             THEN /\ locked' = [locked EXCEPT ![r] = FALSE]
                  /\ held' = [held EXCEPT ![w] = @ \ {r}]
                  /\ IF idx[w] = 1
                        THEN /\ acquired' = [acquired EXCEPT ![w] = <<>>]
                             /\ pc' = [pc EXCEPT ![w] = "record_end"]
                             /\ idx' = idx
                        ELSE /\ idx' = [idx EXCEPT ![w] = @ - 1]
                             /\ UNCHANGED <<acquired, pc>>
                  /\ UNCHANGED metrics_queue
             ELSE /\ pc' = [pc EXCEPT ![w] = "except"]
                  /\ UNCHANGED <<locked, held, acquired, idx, metrics_queue>>
    /\ UNCHANGED <<retries, bankerVars, parentVars, configVars, simVars>>

\* self.record_end("ok"), then the finally block with `acquired` empty.
NaiveRecordEnd(w) ==
    /\ w \in Workers
    /\ scenario \in {"deadlock", "ordered"}
    /\ pc[w] = "record_end"
    /\ record_end(w, "ok")
    /\ pc' = [pc EXCEPT ![w] = "done"]
    /\ UNCHANGED <<lockVars, retries, bankerVars, parentVars, configVars, simVars>>

\* except Exception: self.record_end("erro"); raise
NaiveExcept(w) ==
    /\ w \in Workers
    /\ scenario \in {"deadlock", "ordered"}
    /\ pc[w] = "except"
    /\ record_end(w, "erro")
    /\ pc' = [pc EXCEPT ![w] = "finally"]
    /\ UNCHANGED <<lockVars, retries, bankerVars, parentVars, configVars, simVars>>

\* finally: for idx in reversed(acquired): try: release() except: pass; then
\* the exception leaves run().
NaiveFinally(w) ==
    /\ w \in Workers
    /\ scenario \in {"deadlock", "ordered"}
    /\ pc[w] = "finally"
    /\ ReleaseQuietly(w, reversed(acquired[w]))
    /\ pc' = [pc EXCEPT ![w] = "raised"]
    /\ UNCHANGED <<idx, acquired, retries, metrics_queue, bankerVars, parentVars, configVars, simVars>>

NaiveWorker_run(w) ==
    \/ NaiveAcquire(w)
    \/ NaiveRelease(w)
    \/ NaiveRecordEnd(w)
    \/ NaiveExcept(w)
    \/ NaiveFinally(w)

\* ------------------------------------------------ Scenario.wait_processes
\* process.join() with no timeout returns once the process is not alive.
Scenario_wait_processes ==
    /\ scenario \in {"ordered", "retry"}
    /\ parentPc = "join"
    /\ IF joinIdx <= workers
          THEN /\ ~is_alive(joinIdx)
               /\ completed' = completed + 1
               /\ joinIdx' = joinIdx + 1
               /\ parentPc' = parentPc
          ELSE /\ parentPc' = "returned"
               /\ UNCHANGED <<joinIdx, completed>>
    /\ UNCHANGED <<stuck, lockVars, pc, retries, metrics_queue, bankerVars, configVars, simVars>>

\* ------------------------------------------------------ RetryWorker.run
\* lock.acquire(timeout=self.try_timeout) that returns True;
\* acquired.append(idx); time.sleep(self.hold_time), whose ValueError goes to
\* the except block.
RetryAcquire(w) ==
    /\ w \in Workers
    /\ scenario = "retry"
    /\ pc[w] = "acquire"
    /\ ~locked[NextLock(w)]
    /\ locked' = [locked EXCEPT ![NextLock(w)] = TRUE]
    /\ held' = [held EXCEPT ![w] = @ \cup {NextLock(w)}]
    /\ acquired' = [acquired EXCEPT ![w] = Append(@, idx[w])]
    /\ IF sleep_raises(hold_time)
          THEN /\ pc' = [pc EXCEPT ![w] = "except"]
               /\ idx' = idx
          ELSE IF idx[w] = resource_count
                  THEN /\ pc' = [pc EXCEPT ![w] = "release"]
                       /\ idx' = [idx EXCEPT ![w] = resource_count]
                  ELSE /\ pc' = pc
                       /\ idx' = [idx EXCEPT ![w] = @ + 1]
    /\ UNCHANGED <<retries, metrics_queue, bankerVars, parentVars, configVars, simVars>>

\* `got` taken for True whatever acquire() answered.
got_ignored(w) == TRUE

\* got = lock.acquire(timeout=self.try_timeout): True exactly when the lock
\* was obtained.
got(w) == ~locked[NextLock(w)]

\* acquire() called without the timeout: it never gives up.
RetryTimeout_never(w) ==
    /\ FALSE
    /\ UNCHANGED vars

\* lock.acquire(timeout=self.try_timeout) on a lock that stayed locked for the
\* whole timeout.  `if not got`: increment_retry(), failed = True, break; the
\* rollback loop follows (at once the backoff when nothing is acquired).
\* Otherwise the lock is appended to `acquired` like an obtained one.
RetryTimeout(w) ==
    /\ w \in Workers
    /\ scenario = "retry"
    /\ pc[w] = "acquire"
    /\ locked[NextLock(w)]
    /\ IF ~got(w)
          THEN /\ retries' = [retries EXCEPT ![w] = increment_retry(@)]
               /\ IF acquired[w] = <<>>
                     THEN /\ pc' = [pc EXCEPT ![w] = "backoff"]
                          /\ idx' = idx
                     ELSE /\ pc' = [pc EXCEPT ![w] = "rollback"]
                          /\ idx' = [idx EXCEPT ![w] = Len(acquired[w])]
               /\ UNCHANGED <<acquired, held>>
          ELSE /\ acquired' = [acquired EXCEPT ![w] = Append(@, idx[w])]
               /\ held' = [held EXCEPT ![w] = @ \cup {NextLock(w)}]
               /\ IF idx[w] = resource_count
                     THEN /\ pc' = [pc EXCEPT ![w] = "release"]
                          /\ idx' = [idx EXCEPT ![w] = resource_count]
                     ELSE /\ pc' = pc
                          /\ idx' = [idx EXCEPT ![w] = @ + 1]
               /\ UNCHANGED retries
    /\ UNCHANGED <<locked, metrics_queue, bankerVars, parentVars, configVars, simVars>>

\* The lock the rollback loop releases at position i of `acquired`.
rollback_lock(w, i) == locks(w)[acquired[w][i]]

\* The rollback loop left out: straight to the backoff.
RetryRollback_skipped(w) ==
    /\ w \in Workers
    /\ scenario = "retry"
    /\ pc[w] = "rollback"
    /\ pc' = [pc EXCEPT ![w] = "backoff"]
    /\ UNCHANGED <<lockVars, retries, metrics_queue, bankerVars, parentVars, configVars, simVars>>

\* for idx in reversed(acquired): try: release() except Exception: pass
RetryRollback(w) ==
    /\ w \in Workers
    /\ scenario = "retry"
    /\ pc[w] = "rollback"
    /\ LET r == rollback_lock(w, idx[w])
       IN /\ locked' = [locked EXCEPT ![r] = FALSE]
          /\ held' = [held EXCEPT ![w] = @ \ {r}]
    /\ IF idx[w] = 1
          THEN /\ pc' = [pc EXCEPT ![w] = "backoff"]
               /\ idx' = idx
          ELSE /\ pc' = pc
               /\ idx' = [idx EXCEPT ![w] = @ - 1]
    /\ UNCHANGED <<acquired, retries, metrics_queue, bankerVars, parentVars, configVars, simVars>>

\* sleep_for = hold_time / 2 + uniform(0, hold_time / 2), which has the sign of
\* hold_time; time.sleep(sleep_for), then the next iteration of `while True`.
RetryBackoff(w) ==
    /\ w \in Workers
    /\ scenario = "retry"
    /\ pc[w] = "backoff"
    /\ IF sleep_raises(hold_time)
          THEN /\ pc' = [pc EXCEPT ![w] = "except"]
               /\ UNCHANGED <<acquired, idx>>
          ELSE /\ acquired' = [acquired EXCEPT ![w] = <<>>]
               /\ idx' = [idx EXCEPT ![w] = 1]
               /\ pc' = [pc EXCEPT ![w] = "acquire"]
    /\ UNCHANGED <<locked, held, retries, metrics_queue, bankerVars, parentVars, configVars, simVars>>

\* for idx in reversed(acquired): self.locks[idx].release() of the success
\* branch.  A ValueError of release() goes to the except block.
RetryRelease(w) ==
    /\ w \in Workers
    /\ scenario = "retry"
    /\ pc[w] = "release"
    /\ LET r == locks(w)[acquired[w][idx[w]]]
       IN IF locked[r]
             THEN /\ locked' = [locked EXCEPT ![r] = FALSE]
                  /\ held' = [held EXCEPT ![w] = @ \ {r}]
                  /\ IF idx[w] = 1
                        THEN pc' = [pc EXCEPT ![w] = "record_end"]
                        ELSE pc' = pc
                  /\ idx' = [idx EXCEPT ![w] = IF @ = 1 THEN @ ELSE @ - 1]
                  /\ UNCHANGED metrics_queue
             ELSE /\ pc' = [pc EXCEPT ![w] = "except"]
                  /\ UNCHANGED <<locked, held, idx, metrics_queue>>
    /\ UNCHANGED <<acquired, retries, bankerVars, parentVars, configVars, simVars>>

\* self.record_end("ok"); break
RetryRecordEnd(w) ==
    /\ w \in Workers
    /\ scenario = "retry"
    /\ pc[w] = "record_end"
    /\ record_end(w, "ok")
    /\ pc' = [pc EXCEPT ![w] = "done"]
    /\ UNCHANGED <<lockVars, retries, bankerVars, parentVars, configVars, simVars>>

\* except Exception: self.record_end("erro"); raise.  RetryWorker.run has no
\* finally block: the exception leaves run() with the locks as they are.
RetryExcept(w) ==
    /\ w \in Workers
    /\ scenario = "retry"
    /\ pc[w] = "except"
    /\ record_end(w, "erro")
    /\ pc' = [pc EXCEPT ![w] = "raised"]
    /\ UNCHANGED <<lockVars, retries, bankerVars, parentVars, configVars, simVars>>

RetryWorker_run(w) ==
    \/ RetryAcquire(w)
    \/ RetryTimeout(w)
    \/ RetryRollback(w)
    \/ RetryBackoff(w)
    \/ RetryRelease(w)
    \/ RetryRecordEnd(w)
    \/ RetryExcept(w)

\* ---------------------------------------- DeadlockScenario.wait_processes
\* process.join(timeout=self.timeout) returns when the process has ended or
\* when the timeout has elapsed; the process is counted when it is not alive.
DeadlockJoin ==
    /\ scenario = "deadlock"
    /\ parentPc = "join"
    /\ joinIdx <= workers
    /\ completed' = IF is_alive(joinIdx) THEN completed ELSE completed + 1
    /\ joinIdx' = joinIdx + 1
    /\ UNCHANGED <<parentPc, stuck, lockVars, pc, retries, metrics_queue, bankerVars, configVars, simVars>>

\* stuck = [process for process in processes if process.is_alive()]
DeadlockStuck ==
    /\ scenario = "deadlock"
    /\ parentPc = "join"
    /\ joinIdx > workers
    /\ stuck' = {w \in Workers : is_alive(w)}
    /\ IF stuck' # {}
          THEN parentPc' = "terminate"
          ELSE parentPc' = "returned"
    /\ UNCHANGED <<joinIdx, completed, lockVars, pc, retries, metrics_queue, bankerVars, configVars, simVars>>

\* Only the first process of `stuck` is terminated.
terminate_first_only(s) == IF s = {} THEN {} ELSE {CHOOSE x \in s : \A y \in s : x <= y}

\* The processes process.terminate() is called on, given the list `stuck`.
to_terminate(s) == s

\* for process in stuck: process.terminate().  SIGTERM ends the process where
\* it stands: no except or finally block of run() is executed.  `stuck` holds
\* the processes the loop has not reached yet.
DeadlockTerminate ==
    /\ scenario = "deadlock"
    /\ parentPc = "terminate"
    /\ pc' = [w \in AllWorkers |->
                IF w \in to_terminate(stuck) /\ is_alive(w) THEN "killed" ELSE pc[w]]
    /\ stuck' = {}
    /\ parentPc' = "join_all"
    /\ joinIdx' = 1
    /\ UNCHANGED <<completed, lockVars, retries, metrics_queue, bankerVars, configVars, simVars>>

\* for process in processes: process.join(); counted when not alive.
DeadlockJoinAll ==
    /\ scenario = "deadlock"
    /\ parentPc = "join_all"
    /\ IF joinIdx <= workers
          THEN /\ ~is_alive(joinIdx)
               /\ completed' = completed + 1
               /\ joinIdx' = joinIdx + 1
               /\ parentPc' = parentPc
          ELSE /\ parentPc' = "returned"
               /\ UNCHANGED <<joinIdx, completed>>
    /\ UNCHANGED <<stuck, lockVars, pc, retries, metrics_queue, bankerVars, configVars, simVars>>

DeadlockScenario_wait_processes ==
    \/ DeadlockJoin
    \/ DeadlockStuck
    \/ DeadlockTerminate
    \/ DeadlockJoinAll

\* ------------------------------------------------------- Ordered scenario
InitOrdered == InitLocks({"ordered"})

NextOrdered ==
    \/ \E w \in AllWorkers : NaiveAcquire(w)
    \/ \E w \in AllWorkers : NaiveRelease(w)
    \/ \E w \in AllWorkers : NaiveRecordEnd(w)
    \/ Scenario_wait_processes

SpecOrdered == InitOrdered /\ [][NextOrdered]_vars

\* ------------------------------------------------------ Deadlock scenario
InitDeadlock == InitLocks({"deadlock"})

NextDeadlock ==
    \/ \E w \in AllWorkers : NaiveAcquire(w)
    \/ \E w \in AllWorkers : NaiveRelease(w)
    \/ \E w \in AllWorkers : NaiveRecordEnd(w)
    \/ DeadlockJoin
    \/ DeadlockStuck
    \/ DeadlockTerminate
    \/ DeadlockJoinAll

SpecDeadlock == InitDeadlock /\ [][NextDeadlock]_vars

\* --------------------------------------------------------- Retry scenario
InitRetry == InitLocks({"retry"})

NextRetry ==
    \/ \E w \in AllWorkers : RetryAcquire(w)
    \/ \E w \in AllWorkers : RetryTimeout(w)
    \/ \E w \in AllWorkers : RetryRollback(w)
    \/ \E w \in AllWorkers : RetryBackoff(w)
    \/ \E w \in AllWorkers : RetryRelease(w)
    \/ \E w \in AllWorkers : RetryRecordEnd(w)
    \/ Scenario_wait_processes

SpecRetry == InitRetry /\ [][NextRetry]_vars

\* ------------------------------------- the three lock-based scenarios
InitLockScenarios == InitLocks({"deadlock", "ordered", "retry"})

NextLockScenarios ==
    \/ \E w \in AllWorkers : NaiveAcquire(w)
    \/ \E w \in AllWorkers : NaiveRelease(w)
    \/ \E w \in AllWorkers : NaiveRecordEnd(w)
    \/ \E w \in AllWorkers : RetryAcquire(w)
    \/ \E w \in AllWorkers : RetryTimeout(w)
    \/ \E w \in AllWorkers : RetryRollback(w)
    \/ \E w \in AllWorkers : RetryBackoff(w)
    \/ \E w \in AllWorkers : RetryRelease(w)
    \/ \E w \in AllWorkers : RetryRecordEnd(w)
    \/ Scenario_wait_processes
    \/ DeadlockJoin
    \/ DeadlockStuck
    \/ DeadlockTerminate
    \/ DeadlockJoinAll

SpecLockScenarios == InitLockScenarios /\ [][NextLockScenarios]_vars

\* ---------------------------------------------------------- Banker engine
\* The engine (core/banker.py) is modelled from its specification.
ZeroVector == [r \in AllResources |-> 0]

\* A pool with one unit more per class than resource_units.
resource_pool_one_more ==
    [r \in AllResources |-> IF r \in Resources THEN resource_units + 1 ELSE 0]

\* Capacity U_r of class r: resource_pool = [resource_units] * resource_count.
resource_pool == [r \in AllResources |-> IF r \in Resources THEN resource_units ELSE 0]

RECURSIVE column_sum(_, _, _)
column_sum(A, r, n) == IF n = 0 THEN 0 ELSE A[n][r] + column_sum(A, r, n - 1)

\* V[r] = U_r - sum over p of A[p][r]
available(A) == [r \in AllResources |-> resource_pool[r] - column_sum(A, r, workers)]

\* need[p][r] = C[p][r] - A[p][r]
need(A, p) == [r \in AllResources |-> claims[p][r] - A[p][r]]

\* The request added twice to the allocation.
tentative_grant_twice(A, pid, req) ==
    [A EXCEPT ![pid] = [r \in AllResources |-> A[pid][r] + 2 * req[r]]]

\* A' = A with A'[pid][r] += req[r]
tentative_grant(A, pid, req) ==
    [A EXCEPT ![pid] = [r \in AllResources |-> A[pid][r] + req[r]]]

Min(S) == CHOOSE x \in S : \A y \in S : x <= y

\* The safety test: from work = V and no process finished, repeatedly finish
\* the process of least pid whose need fits in work and add its allocation to
\* work; the state is safe when every process gets finished.
\* (\E x \in {e} : ... binds x to the value of e.)
RECURSIVE safety_test(_, _, _)
safety_test(A, work, finish) ==
    LET fits == {p \in Workers \ finish : \A r \in Resources : need(A, p)[r] <= work[r]}
    IN IF fits = {}
          THEN finish = Workers
          ELSE \E p \in {Min(fits)} :
                   \E work2 \in {[r \in AllResources |-> work[r] + A[p][r]]} :
                       \E finish2 \in {finish \cup {p}} :
                           safety_test(A, work2, finish2)

is_safe(A) == \E V \in {available(A)} : safety_test(A, V, {})

\* A request granted only while no other process holds a unit.
request_resources_when_alone(pid, req) ==
    \E A1 \in {tentative_grant(allocation, pid, req)} :
        /\ \A r \in Resources : req[r] <= need(allocation, pid)[r]
        /\ \A r \in Resources : available(A1)[r] >= 0
        /\ is_safe(A1)
        /\ \A p \in Workers \ {pid} : allocation[p] = ZeroVector

\* request_resources(pid, req): denied when a component exceeds the remaining
\* need, when the tentative grant leaves a class negative, or when the
\* tentative state is not safe.
request_resources(pid, req) ==
    \E A1 \in {tentative_grant(allocation, pid, req)} :
        /\ \A r \in Resources : req[r] <= need(allocation, pid)[r]
        /\ \A r \in Resources : available(A1)[r] >= 0
        /\ is_safe(A1)

\* release_all(pid): zero A[pid].
release_all(A, pid) == [A EXCEPT ![pid] = ZeroVector]

\* ------------------------------------------------- BankerWorker._build_request
\* Every class drawn from 1..MaxUnits whatever remains of it.
build_request_up_to_units(rem) ==
    {[r \in AllResources |-> IF r \in Resources THEN q[r] ELSE 0] :
        q \in [Resources -> 1..MaxUnits]}

\* The requests _build_request can return for `remaining`: randint(1, need) for
\* every class still needed, 0 for the others; when that is all zeros, 1 for one
\* class drawn at random.
build_request(rem) ==
    IF \A r \in Resources : rem[r] <= 0
       THEN {[r \in AllResources |-> IF r = k THEN 1 ELSE 0] : k \in Resources}
       ELSE LET needed == {r \in Resources : rem[r] > 0}
                draws == {q \in [needed -> 1..MaxUnits] : \A r \in needed : q[r] <= rem[r]}
            IN {[r \in AllResources |-> IF r \in needed THEN q[r] ELSE 0] : q \in draws}

\* `remaining` left as it was after a grant.
after_grant_forgotten(rem, req) == rem

\* remaining = [max(need - req, 0) for need, req in zip(remaining, request)]
after_grant(rem, req) ==
    [r \in AllResources |-> IF rem[r] - req[r] > 0 THEN rem[r] - req[r] ELSE 0]

\* ------------------------------------------------------- BankerWorker.run
\* The signs wait_for = max(0.2, hold_time / 2) + uniform(0, hold_time / 2) can
\* have: positive for hold_time >= 0, and for hold_time = -1 anything between
\* -0.3 and 0.2.
wait_for_signs == IF hold_time >= 0 THEN {1} ELSE {-1, 1}

\* One iteration of `while True` with the request `req` that _build_request
\* returned (the locals `request` and `granted` live for this step only).
\* Granted: update `remaining`, then time.sleep(self.hold_time) before the
\* release when nothing remains and time.sleep(self.hold_time / 3) before the
\* next request otherwise.  Denied: increment_retry(), time.sleep(wait_for),
\* next iteration.  A ValueError of a sleep goes to the except block.
BankerRequestOf(w, req) ==
    /\ w \in Workers
    /\ scenario = "banker"
    /\ pc[w] = "request"
    /\ req \in build_request(remaining[w])
    /\ IF request_resources(w, req)
          THEN /\ allocation' = tentative_grant(allocation, w, req)
               /\ remaining' = [remaining EXCEPT ![w] = after_grant(@, req)]
               /\ pc' = [pc EXCEPT ![w] =
                           IF sleep_raises(hold_time) THEN "except"
                           ELSE IF \A r \in Resources : after_grant(remaining[w], req)[r] = 0
                                   THEN "release" ELSE "request"]
               /\ UNCHANGED retries
          ELSE /\ retries' = [retries EXCEPT ![w] = increment_retry(@)]
               /\ \E wait_for \in wait_for_signs :
                      pc' = [pc EXCEPT ![w] =
                                IF sleep_raises(wait_for) THEN "except" ELSE "request"]
               /\ UNCHANGED <<allocation, remaining>>
    /\ UNCHANGED <<claims, lockVars, metrics_queue, parentVars, configVars, simVars>>

Requests == [AllResources -> 0..MaxUnits]

BankerRequest(w) == \E req \in build_request(remaining[w]) : BankerRequestOf(w, req)

\* time.sleep(self.hold_time); released = self.banker.release_all(self.process_id)
BankerRelease(w) ==
    /\ w \in Workers
    /\ scenario = "banker"
    /\ pc[w] = "release"
    /\ allocation' = release_all(allocation, w)
    /\ pc' = [pc EXCEPT ![w] = "record_end"]
    /\ UNCHANGED <<claims, remaining, lockVars, retries, metrics_queue,
                   parentVars, configVars, simVars>>

\* self.record_end("ok"); break
BankerRecordEnd(w) ==
    /\ w \in Workers
    /\ scenario = "banker"
    /\ pc[w] = "record_end"
    /\ record_end(w, "ok")
    /\ pc' = [pc EXCEPT ![w] = "done"]
    /\ UNCHANGED <<lockVars, retries, bankerVars, parentVars, configVars, simVars>>

\* except Exception: self.record_end("erro"); raise.  Nothing gives the units
\* of the worker back to the Banker.
BankerExcept(w) ==
    /\ w \in Workers
    /\ scenario = "banker"
    /\ pc[w] = "except"
    /\ record_end(w, "erro")
    /\ pc' = [pc EXCEPT ![w] = "raised"]
    /\ UNCHANGED <<lockVars, retries, bankerVars, parentVars, configVars, simVars>>

BankerWorker_run(w) ==
    \/ BankerRequest(w)
    \/ BankerRelease(w)
    \/ BankerRecordEnd(w)
    \/ BankerExcept(w)

\* --------------------------------------------------- BankerScenario.run
\* for idx, thread in enumerate(threads, start=1): thread.join();
\* report_progress(idx, len(threads))
BankerScenario_run ==
    /\ scenario = "banker"
    /\ parentPc = "join"
    /\ IF joinIdx <= workers
          THEN /\ ~is_alive(joinIdx)
               /\ completed' = joinIdx
               /\ joinIdx' = joinIdx + 1
               /\ parentPc' = parentPc
          ELSE /\ parentPc' = "returned"
               /\ UNCHANGED <<joinIdx, completed>>
    /\ UNCHANGED <<stuck, lockVars, pc, retries, metrics_queue, bankerVars, configVars, simVars>>

\* Claims drawn up to one unit beyond the capacity of a class.
_build_claims_beyond_capacity ==
    LET rows == {[r \in AllResources |-> IF r \in Resources THEN q[r] ELSE 0] :
                    q \in [Resources -> 1..(resource_units + 1)]}
    IN {[w \in AllWorkers |-> IF w \in Workers THEN C[w] ELSE ZeroVector] :
           C \in [Workers -> rows]}

\* BankerScenario._build_claims: every component is rng.randint(1, max_need)
\* with max_need = max(1, resource_units).
_build_claims ==
    LET rows == {[r \in AllResources |-> IF r \in Resources THEN q[r] ELSE 0] :
                    q \in [Resources -> 1..resource_units]}
    IN {[w \in AllWorkers |-> IF w \in Workers THEN C[w] ELSE ZeroVector] :
           C \in [Workers -> rows]}

\* --------------------------------------------------------- Banker scenario
\* The Banker scenario with hold_time one of `times`.
InitBankerOf(times) ==
    /\ scenario = "banker"
    /\ workers \in 1..MaxWorkers
    /\ resource_count \in 1..MaxResources
    /\ resource_units \in 1..MaxUnits
    /\ hold_time \in times
    /\ InitNoSimulator
    /\ InitNoDetector
    /\ workers * resource_count * resource_units <= MaxClaimUnits
    /\ claims \in _build_claims
    /\ allocation = [w \in AllWorkers |-> ZeroVector]
    /\ remaining = claims
    /\ locked = [r \in AllResources |-> FALSE]
    /\ held = [w \in AllWorkers |-> {}]
    /\ pc = [w \in AllWorkers |-> IF w \in Workers THEN "request" ELSE "absent"]
    /\ idx = [w \in AllWorkers |-> 1]
    /\ acquired = [w \in AllWorkers |-> <<>>]
    /\ retries = [w \in AllWorkers |-> 0]
    /\ metrics_queue = [w \in AllWorkers |-> <<>>]
    /\ parentPc = "join"
    /\ joinIdx = 1
    /\ completed = 0
    /\ stuck = {}

\* The scenario as it is run: with a hold_time that is not negative.
InitBanker == InitBankerOf(ValidHoldTimes)

NextBanker ==
    \/ \E w \in AllWorkers : BankerRequest(w)
    \/ \E w \in AllWorkers : BankerRelease(w)
    \/ \E w \in AllWorkers : BankerRecordEnd(w)
    \/ BankerScenario_run

SpecBanker == InitBanker /\ [][NextBanker]_vars

\* Scheduling: every worker thread and the parent run again and again.
FairSpecBanker ==
    /\ SpecBanker
    /\ \A w \in AllWorkers : WF_vars(BankerWorker_run(w))
    /\ WF_vars(BankerScenario_run)

\* Scheduling: the operating system runs every runnable worker process and
\* the parent again and again (weak fairness of each of them).
FairSpecOrdered ==
    /\ SpecOrdered
    /\ \A w \in AllWorkers : WF_vars(NaiveWorker_run(w))
    /\ WF_vars(Scenario_wait_processes)

FairSpecDeadlock ==
    /\ SpecDeadlock
    /\ \A w \in AllWorkers : WF_vars(NaiveWorker_run(w))
    /\ WF_vars(DeadlockScenario_wait_processes)

FairSpecRetry ==
    /\ SpecRetry
    /\ \A w \in AllWorkers : WF_vars(RetryWorker_run(w))
    /\ WF_vars(Scenario_wait_processes)

\* ------------------------------------- every scenario, any hold_time
\* The four scenarios with any hold_time a caller can pass, the negative
\* one included, for which every time.sleep of a worker raises.
InitAnyHoldTime ==
    \/ InitLocksOf({"deadlock", "ordered", "retry"}, HoldTimes)
    \/ InitBankerOf(HoldTimes)

NextAnyHoldTime ==
    \/ \E w \in AllWorkers : NaiveAcquire(w)
    \/ \E w \in AllWorkers : NaiveRelease(w)
    \/ \E w \in AllWorkers : NaiveRecordEnd(w)
    \/ \E w \in AllWorkers : NaiveExcept(w)
    \/ \E w \in AllWorkers : NaiveFinally(w)
    \/ \E w \in AllWorkers : RetryAcquire(w)
    \/ \E w \in AllWorkers : RetryTimeout(w)
    \/ \E w \in AllWorkers : RetryRollback(w)
    \/ \E w \in AllWorkers : RetryBackoff(w)
    \/ \E w \in AllWorkers : RetryRelease(w)
    \/ \E w \in AllWorkers : RetryRecordEnd(w)
    \/ \E w \in AllWorkers : RetryExcept(w)
    \/ \E w \in AllWorkers : BankerRequest(w)
    \/ \E w \in AllWorkers : BankerRelease(w)
    \/ \E w \in AllWorkers : BankerRecordEnd(w)
    \/ \E w \in AllWorkers : BankerExcept(w)
    \/ Scenario_wait_processes
    \/ DeadlockJoin
    \/ DeadlockStuck
    \/ DeadlockTerminate
    \/ DeadlockJoinAll
    \/ BankerScenario_run

SpecAnyHoldTime == InitAnyHoldTime /\ [][NextAnyHoldTime]_vars

\* ------------------------------------------------------ DeadlockDetector
\* A wait-for graph is a dict of sets: graph.keys is list(graph.keys()) in
\* the order the dict yields them, graph.nbrs[u] the elements of graph[u] in the
\* order the set yields them.
Some(l) == [is_none |-> FALSE, list |-> l]

Range(s) == {s[i] : i \in 1..Len(s)}

\* graph.get(node, set())
graph_get(g, node) == IF node \in DOMAIN g.nbrs THEN g.nbrs[node] ELSE <<>>

\* path.index(neighbor), 1-based
path_index(path, x) == CHOOSE i \in 1..Len(path) : path[i] = x /\ \A j \in 1..(i - 1) : path[j] # x

\* The whole path returned for a cycle.
cycle_from_start(path, neighbor) == path \o <<neighbor>>

\* idx = path.index(neighbor); return path[idx:] + [neighbor]
cycle_from(path, neighbor) ==
    SubSeq(path, path_index(path, neighbor), Len(path)) \o <<neighbor>>

\* Only the node on top of the stack counted as on it.
in_stack_top_only(path, neighbor) == path # <<>> /\ neighbor = path[Len(path)]

\* neighbor in stack: `stack` holds the nodes of `path` (both get the node on
\* entry of dfs and lose it on its exit).
in_stack(path, neighbor) == neighbor \in Range(path)

\* dfs(node), with `visited` and `path` as they are when it is called.  It
\* returns the cycle found or None, and `visited` as it leaves it.
\* dfs_neighbors is the loop over the neighbours that are left, `nbrs`.
RECURSIVE dfs(_, _, _, _)
RECURSIVE dfs_neighbors(_, _, _, _, _)
dfs(g, node, visited, path) ==
    dfs_neighbors(g, node, graph_get(g, node), visited \cup {node}, Append(path, node))

dfs_neighbors(g, node, nbrs, visited, path) ==
    IF nbrs = <<>>
       THEN [found |-> None, visited |-> visited]
       ELSE LET neighbor == Head(nbrs)
            IN IF neighbor \notin visited
                  THEN LET sub == dfs(g, neighbor, visited, path)
                       IN IF ~sub.found.is_none
                             THEN sub
                             ELSE dfs_neighbors(g, node, Tail(nbrs), sub.visited, path)
                  ELSE IF in_stack(path, neighbor)
                          THEN [found |-> Some(cycle_from(path, neighbor)), visited |-> visited]
                          ELSE dfs_neighbors(g, node, Tail(nbrs), visited, path)

\* for node in list(graph.keys()): if node not in visited: cycle = dfs(node)
RECURSIVE find_cycle_from(_, _, _)
find_cycle_from(g, keys, visited) ==
    IF keys = <<>>
       THEN None
       ELSE IF Head(keys) \notin visited
               THEN LET sub == dfs(g, Head(keys), visited, <<>>)
                    IN IF ~sub.found.is_none
                          THEN sub.found
                          ELSE find_cycle_from(g, Tail(keys), sub.visited)
               ELSE find_cycle_from(g, Tail(keys), visited)

_find_cycle(g) == find_cycle_from(g, g.keys, {})

\* edges = [(u, v) for u, vs in graph.items() for v in vs]
edges_of(g) ==
    UNION {{<<u, g.nbrs[u][i]>> : i \in 1..Len(g.nbrs[u])} : u \in DOMAIN g.nbrs}

\* detect_deadlock, from the graph on: (cycle is not None, edges, cycle or [])
detect_deadlock(g) ==
    LET found == _find_cycle(g)
    IN [called |-> TRUE,
        deadlock |-> ~found.is_none,
        edges |-> edges_of(g),
        cycle |-> IF found.is_none \/ found.list = <<>> THEN <<>> ELSE found.list]

\* ------------------------------------------- the detector on any graph
Nodes == 1..MaxNodes

\* The sets of at most MaxEdges edges between the nodes.
EdgeSets == {E \in SUBSET (Nodes \X Nodes) : Cardinality(E) <= MaxEdges}

\* The nodes with an outgoing edge (the keys of the dict), and graph[u].
sources(E) == {e[1] : e \in E}
successors(E, u) == {e[2] : e \in {d \in E : d[1] = u}}

\* The orders in which a dict or a set of the elements S can yield them.
iteration_orders(S) ==
    {o \in [1..Cardinality(S) -> S] : \A i, j \in 1..Cardinality(S) : i # j => o[i] # o[j]}

\* The dicts of sets with the edges E, in every iteration order.
graphs_of(E) ==
    LET orders == UNION {iteration_orders(successors(E, u)) : u \in sources(E)}
    IN {[keys |-> k, nbrs |-> n] :
           k \in iteration_orders(sources(E)),
           n \in {f \in [sources(E) -> orders] :
                     \A u \in sources(E) : Range(f[u]) = successors(E, u)}}

\* No scenario of src/core is run: `kind` names what is run instead.
InitNoScenario(kind) ==
    /\ scenario = kind
    /\ workers = 0
    /\ resource_count = 0
    /\ hold_time = 0
    /\ locked = [r \in AllResources |-> FALSE]
    /\ held = [w \in AllWorkers |-> {}]
    /\ pc = [w \in AllWorkers |-> "absent"]
    /\ idx = [w \in AllWorkers |-> 1]
    /\ acquired = [w \in AllWorkers |-> <<>>]
    /\ retries = [w \in AllWorkers |-> 0]
    /\ metrics_queue = [w \in AllWorkers |-> <<>>]
    /\ parentPc = "absent"
    /\ joinIdx = 1
    /\ completed = 0
    /\ stuck = {}
    /\ InitNoBanker

InitDetector ==
    /\ \E E \in EdgeSets : graph \in graphs_of(E)
    /\ detection = [called |-> FALSE, deadlock |-> FALSE, edges |-> {}, cycle |-> <<>>]
    /\ InitNoSimulator
    /\ InitNoScenario("detector")

\* deadlock, edges, cycle = detector.detect_deadlock(...) for the graph built
DetectDeadlock ==
    /\ scenario = "detector"
    /\ ~detection.called
    /\ detection' = detect_deadlock(graph)
    /\ UNCHANGED <<graph, simulatorVars, coreVars>>

NextDetector == DetectDeadlock

SpecDetector == InitDetector /\ [][NextDetector]_vars

\* ------------------------------------------------------------ Process
\* A Process is a record; pid P{i} is the number i, resource R{r} the number
\* r, and 0 stands for the None of current_request and of held_by.
new_process(pid, plan) ==
    [pid |-> pid, plan |-> plan, held_resources |-> {}, current_request |-> 0,
     state |-> "RUNNING"]

\* all(r in self.held_resources for r in self.plan)
has_all_resources(p) == \A i \in 1..Len(p.plan) : p.plan[i] \in p.held_resources

\* remaining = [r for r in self.plan if r not in self.held_resources]
remaining_plan(p) == SelectSeq(p.plan, LAMBDA r : r \notin p.held_resources)

\* The request of either mode made in sorted order.
next_request_always_sorted(p, ordered_mode) ==
    IF p.state \in {"BLOCKED", "DEADLOCKED", "FINISHED"} THEN 0
    ELSE IF remaining_plan(p) = <<>> THEN 0
    ELSE Min(Range(remaining_plan(p)))

\* The request of the ordered mode made in plan order.
next_request_in_plan_order(p, ordered_mode) ==
    IF p.state \in {"BLOCKED", "DEADLOCKED", "FINISHED"} THEN 0
    ELSE IF remaining_plan(p) = <<>> THEN 0
    ELSE Head(remaining_plan(p))

\* Process.next_request: sorted(remaining)[0] in ordered mode, the first
\* resource of the plan that is not held in naive mode.  (The ids sort as
\* strings; for R1..R9 that is the order of their numbers.)
next_request(p, ordered_mode) ==
    IF p.state \in {"BLOCKED", "DEADLOCKED", "FINISHED"} THEN 0
    ELSE IF remaining_plan(p) = <<>> THEN 0
    ELSE IF ordered_mode THEN Min(Range(remaining_plan(p)))
    ELSE Head(remaining_plan(p))

\* -------------------------------------------------------- LockManager
\* LockManager.request for the process at position i of self.processes.
LockManager_request(i, rid) ==
    IF resources[rid] = 0
       THEN /\ resources' = [resources EXCEPT ![rid] = processes[i].pid]
            /\ processes' = [processes EXCEPT ![i].held_resources = @ \cup {rid},
                                               ![i].state = "RUNNING",
                                               ![i].current_request = 0]
       ELSE IF resources[rid] = processes[i].pid
               THEN UNCHANGED <<processes, resources>>
               ELSE /\ processes' = [processes EXCEPT ![i].state = "BLOCKED",
                                                       ![i].current_request = rid]
                    /\ UNCHANGED resources

\* release_all that leaves the state of the process as it is.
LockManager_release_all_stays_running(i) ==
    /\ resources' = [r \in DOMAIN resources |->
                        IF r \in processes[i].held_resources /\ resources[r] = processes[i].pid
                           THEN 0 ELSE resources[r]]
    /\ processes' = [processes EXCEPT ![i].held_resources = {},
                                       ![i].current_request = 0]

\* release_all that leaves held_by of the resources as it is.
LockManager_release_all_keeps_owner(i) ==
    /\ UNCHANGED resources
    /\ processes' = [processes EXCEPT ![i].held_resources = {},
                                       ![i].current_request = 0,
                                       ![i].state = "FINISHED"]

\* LockManager.release_all (called by Simulator._complete_process).
LockManager_release_all(i) ==
    /\ resources' = [r \in DOMAIN resources |->
                        IF r \in processes[i].held_resources /\ resources[r] = processes[i].pid
                           THEN 0 ELSE resources[r]]
    /\ processes' = [processes EXCEPT ![i].held_resources = {},
                                       ![i].current_request = 0,
                                       ![i].state = "FINISHED"]

\* ------------------------------------------------------------ Simulator
\* The graph built without the test of `holder`: an edge to None for a
\* request whose resource is free.
build_wait_for_graph_to_none(procs, res) ==
    LET waits(p) == /\ p.state = "BLOCKED"
                    /\ p.current_request # 0
                    /\ res[p.current_request] # p.pid
        waiting == SelectSeq(procs, waits)
    IN [keys |-> [k \in 1..Len(waiting) |-> waiting[k].pid],
        nbrs |-> [u \in {waiting[k].pid : k \in 1..Len(waiting)} |->
                    LET p == CHOOSE q \in Range(waiting) : q.pid = u
                    IN <<res[p.current_request]>>]]

\* DeadlockDetector.build_wait_for_graph: an edge pid -> holder for every
\* BLOCKED process whose request is held by another process, keyed in the order
\* of self.processes.
build_wait_for_graph(procs, res) ==
    LET waits(p) == /\ p.state = "BLOCKED"
                    /\ p.current_request # 0
                    /\ res[p.current_request] # 0
                    /\ res[p.current_request] # p.pid
        waiting == SelectSeq(procs, waits)
    IN [keys |-> [k \in 1..Len(waiting) |-> waiting[k].pid],
        nbrs |-> [u \in {waiting[k].pid : k \in 1..Len(waiting)} |->
                    LET p == CHOOSE q \in Range(waiting) : q.pid = u
                    IN <<res[p.current_request]>>]]

\* for t in range(self.max_steps): the next tick begins, or the loop is over.
Simulator_run ==
    /\ simPc = "run"
    /\ IF t < max_steps
          THEN /\ simPc' = "request"
               /\ procIdx' = 1
               /\ tick_log' = <<>>
          ELSE /\ simPc' = "returned"
               /\ procIdx' = procIdx
               /\ tick_log' = tick_log
    /\ UNCHANGED <<mode, max_steps, processes, resources, t, deadlock_found, cycle>>
    /\ UNCHANGED <<detectorVars, coreVars>>

\* The line request() prints (none when the resource is held by the process
\* itself), and the line _complete_process() prints.
request_line(i, rid) ==
    IF resources[rid] # 0 /\ resources[rid] = processes[i].pid
       THEN <<>>
       ELSE <<[pid |-> processes[i].pid, what |-> "request", rid |-> rid]>>

complete_line(i) == <<[pid |-> processes[i].pid, what |-> "complete", rid |-> 0]>>

\* One iteration of the first loop of step(): the process at procIdx retries
\* the request it is blocked on, completes, or makes its next request.
StepRequest ==
    /\ simPc = "request"
    /\ IF procIdx > Len(processes)
          THEN /\ simPc' = "complete"
               /\ procIdx' = 1
               /\ UNCHANGED <<processes, resources, tick_log>>
          ELSE /\ simPc' = simPc
               /\ procIdx' = procIdx + 1
               /\ LET p == processes[procIdx]
                      target == next_request(p, mode = "ordered")
                  IN IF p.state \in {"DEADLOCKED", "FINISHED"}
                        THEN UNCHANGED <<processes, resources, tick_log>>
                     ELSE IF p.state = "BLOCKED" /\ p.current_request # 0
                        THEN /\ LockManager_request(procIdx, p.current_request)
                             /\ tick_log' = tick_log \o request_line(procIdx, p.current_request)
                     ELSE IF p.state = "RUNNING"
                        THEN IF has_all_resources(p)
                                THEN /\ LockManager_release_all(procIdx)
                                     /\ tick_log' = tick_log \o complete_line(procIdx)
                             ELSE IF target # 0
                                THEN /\ LockManager_request(procIdx, target)
                                     /\ tick_log' = tick_log \o request_line(procIdx, target)
                             ELSE UNCHANGED <<processes, resources, tick_log>>
                     ELSE UNCHANGED <<processes, resources, tick_log>>
    /\ UNCHANGED <<mode, max_steps, t, deadlock_found, cycle>>
    /\ UNCHANGED <<detectorVars, coreVars>>

\* One iteration of the second loop of step(): a RUNNING process that holds
\* its whole plan completes.
StepComplete ==
    /\ simPc = "complete"
    /\ IF procIdx > Len(processes)
          THEN /\ simPc' = "detect"
               /\ procIdx' = 1
               /\ UNCHANGED <<processes, resources, tick_log>>
          ELSE /\ simPc' = simPc
               /\ procIdx' = procIdx + 1
               /\ IF processes[procIdx].state = "RUNNING" /\ has_all_resources(processes[procIdx])
                     THEN /\ LockManager_release_all(procIdx)
                          /\ tick_log' = tick_log \o complete_line(procIdx)
                     ELSE UNCHANGED <<processes, resources, tick_log>>
    /\ UNCHANGED <<mode, max_steps, t, deadlock_found, cycle>>
    /\ UNCHANGED <<detectorVars, coreVars>>

\* The test of run() for all processes FINISHED never passing.
all_finished_never(procs) == FALSE

\* all(p.state == ProcessState.FINISHED for p in self.processes)
all_finished(procs) == \A i \in 1..Len(procs) : procs[i].state = "FINISHED"

\* Every process with an edge of the wait-for graph marked.
marked_pids_all_waiting(d) == {e[1] : e \in d.edges}

\* for pid in cycle: the pids whose process gets mark_deadlocked().
marked_pids(d) == Range(d.cycle)

\* The end of step(): detect_deadlock, mark_deadlocked for every pid of the
\* cycle, return; then run() leaves its loop on a deadlock or when every
\* process is FINISHED, and goes to the next tick otherwise.
StepDetect ==
    /\ simPc = "detect"
    /\ \E d \in {detect_deadlock(build_wait_for_graph(processes, resources))} :
          /\ deadlock_found' = d.deadlock
          /\ cycle' = d.cycle
          /\ processes' = IF d.deadlock
                             THEN [i \in 1..Len(processes) |->
                                     IF processes[i].pid \in marked_pids(d)
                                        THEN [processes[i] EXCEPT !.state = "DEADLOCKED"]
                                        ELSE processes[i]]
                             ELSE processes
          /\ simPc' = IF d.deadlock \/ all_finished(processes) THEN "returned" ELSE "run"
    /\ t' = t + 1
    /\ UNCHANGED <<mode, max_steps, resources, procIdx, tick_log>>
    /\ UNCHANGED <<detectorVars, coreVars>>

\* The plans a process can be built with: the lists without duplicates of
\* the resources of S.
duplicate_free_lists(S) == UNION {iteration_orders(X) : X \in SUBSET S}

InitSimulator ==
    /\ mode \in {"naive", "ordered"}
    /\ max_steps \in (0..MaxSteps) \cup {max_steps_default}
    /\ \E n \in 1..MaxWorkers : \E k \in 1..MaxResources :
          /\ resources = [r \in 1..k |-> 0]
          /\ processes \in {[i \in 1..n |-> new_process(i, plans[i])] :
                                plans \in [1..n -> duplicate_free_lists(1..k)]}
    /\ t = 0
    /\ simPc = "run"
    /\ procIdx = 1
    /\ deadlock_found = FALSE
    /\ cycle = <<>>
    /\ tick_log = <<>>
    /\ InitNoDetector
    /\ InitNoScenario("simulator")

NextSimulator ==
    \/ Simulator_run
    \/ StepRequest
    \/ StepComplete
    \/ StepDetect

SpecSimulator == InitSimulator /\ [][NextSimulator]_vars

\* The simulator is one sequential program: it takes its next step as long
\* as it has one.
FairSpecSimulator == SpecSimulator /\ WF_vars(NextSimulator)

\* ================================================================ claims

\* Every worker of the scenario returned from run() after record_end("ok"),
\* with exactly that one record and no lock left.
AllOk ==
    \A w \in Workers :
        /\ pc[w] = "done"
        /\ metrics_queue[w] = <<"ok">>
        /\ held[w] = {}

\* C4: in the deadlock, ordered and retry scenarios no lock is held by two
\* workers at the same time, whatever the interleaving (timeouts, rollback
\* releases and re-acquisitions of retry workers included).
C4_MutualExclusion ==
    \A r \in AllResources : Cardinality({w \in AllWorkers : r \in held[w]}) <= 1

\* A retry worker that timed out and rolled back holds a lock again while
\* another worker holds a lock too.
C4_Witness ==
    /\ scenario = "retry"
    /\ \E w, u \in Workers :
          /\ w # u
          /\ retries[w] > 0
          /\ held[w] # {}
          /\ held[u] # {}

\* C5: in the Ordered scenario, under fair scheduling, every worker ends up
\* having acquired all locks, released them and put one record with status ok,
\* and no worker is ever terminated.
C5_OrderedCompletes ==
    /\ <>[]AllOk
    /\ [](\A w \in AllWorkers : pc[w] # "killed")

C5_Witness ==
    /\ scenario = "ordered"
    /\ workers >= 2
    /\ resource_count >= 2
    /\ AllOk
    /\ parentPc = "returned"

\* The workers of S wait in a circle: each holds a lock and is blocked in
\* acquire() on a lock held by another worker of S.
CircularWait(S) ==
    /\ S # {}
    /\ \A w \in S :
          /\ pc[w] = "acquire"
          /\ held[w] # {}
          /\ \E u \in S \ {w} : NextLock(w) \in held[u]

\* C6: in the Deadlock scenario the workers of a circular wait cannot proceed
\* on their own: a step leaves each of them where it is, unless the parent
\* terminates it.  (That such a state is reachable is C6_Witness.)
C6_CircularWaitIsStuck ==
    [][\A S \in SUBSET AllWorkers :
          CircularWait(S) =>
              \A w \in S :
                  \/ pc'[w] = "killed"
                  \/ /\ pc'[w] = pc[w]
                     /\ idx'[w] = idx[w]
                     /\ held'[w] = held[w]]_vars

C6_Witness ==
    /\ scenario = "deadlock"
    /\ workers >= 2
    /\ resource_count >= 2
    /\ \E S \in SUBSET Workers : CircularWait(S)

\* C7: the parent of the Deadlock scenario always returns from
\* wait_processes, and when it has returned no worker is alive.
C7_RunTerminates ==
    /\ <>(parentPc = "returned")
    /\ [](parentPc = "returned" => \A w \in Workers : ~is_alive(w))

\* wait_processes returned after terminating two workers that held locks.
C7_Witness ==
    /\ parentPc = "returned"
    /\ \E w, u \in Workers :
          /\ w # u
          /\ pc[w] = "killed" /\ held[w] # {}
          /\ pc[u] = "killed" /\ held[u] # {}

\* C8 as claimed: under fair scheduling every retry worker eventually finishes
\* with one record ok.
C8_RetryAlwaysCompletes == <>AllOk

\* C8 as amended: no retry worker is ever stuck (an unfinished worker always has
\* a step to take), no worker puts more than one record, and under fair
\* scheduling either the workers time out again and again for ever or every
\* worker finishes with exactly one record ok.
C8_RetryCompletesUnlessLivelock ==
    /\ [](\A w \in Workers : is_alive(w) => ENABLED RetryWorker_run(w))
    /\ [](\A w \in Workers : Len(metrics_queue[w]) <= 1)
    /\ \/ <>[]AllOk
       \/ []<><<\E w \in AllWorkers : RetryTimeout(w)>>_vars

\* Both workers of opposite orders finished ok after one of them timed out.
C8_Witness ==
    /\ scenario = "retry"
    /\ workers >= 2
    /\ resource_count >= 2
    /\ AllOk
    /\ \E w \in Workers : retries[w] > 0

\* C10: in the Deadlock scenario with one resource and at least two workers,
\* under fair scheduling every worker eventually acquires the lock, releases it
\* and finishes.
C10_SingleResourceFinishes ==
    (resource_count = 1 /\ workers >= 2) => <>AllOk

\* ------------------------------------------------------- Banker claims
\* The injective sequences of all workers of the scenario.
Orders ==
    {o \in [Workers -> Workers] : \A i, j \in Workers : i # j => o[i] # o[j]}

RECURSIVE allocated_before(_, _, _, _)
allocated_before(A, o, i, r) ==
    IF i = 1 THEN 0 ELSE A[o[i - 1]][r] + allocated_before(A, o, i - 1, r)

\* The units of class r allocated in A, and those left of the capacity
\* resource_units of the class.
Allocated(A, r) == allocated_before(A, [w \in Workers |-> w], workers, r) + A[workers][r]
Free(A, r) == resource_units - Allocated(A, r)

\* A is safe: there is an order of all processes in which the remaining need of
\* each fits in the available units plus the allocations of those before it.
Safe(A) ==
    \E o \in Orders :
        \A i \in Workers : \A r \in Resources :
            claims[o[i]][r] - A[o[i]][r] <= Free(A, r) + allocated_before(A, o, i, r)

\* C1: every committed state of the Banker scenario is safe, and a request
\* whose tentative grant is not safe is denied with the allocation unchanged.
C1_CommittedStatesSafe ==
    /\ [](scenario = "banker" => Safe(allocation))
    /\ [][\A w \in AllWorkers : \A req \in Requests :
             (BankerRequestOf(w, req) /\ ~Safe(tentative_grant(allocation, w, req)))
                 => (allocation' = allocation /\ pc' = pc)]_vars

\* A worker was denied a request that fits both its need and the available
\* units (the tentative state was unsafe), while another holds units.
C1_Witness ==
    /\ scenario = "banker"
    /\ \E w \in Workers :
          /\ pc[w] = "request"
          /\ retries[w] > 0
          /\ \E req \in build_request(remaining[w]) :
                /\ \A r \in Resources : req[r] <= Free(allocation, r)
                /\ ~Safe(tentative_grant(allocation, w, req))
          /\ \E u \in Workers \ {w} : allocation[u] # ZeroVector

\* C2: for every class the allocated units sum to at most the capacity: the
\* available vector is never negative.
C2_WithinCapacity ==
    scenario = "banker" =>
        \A r \in Resources :
            /\ Allocated(allocation, r) <= resource_units
            /\ Free(allocation, r) >= 0

\* A class is used up by the allocations of two workers.
C2_Witness ==
    /\ scenario = "banker"
    /\ \E r \in Resources :
          /\ Free(allocation, r) = 0
          /\ \E w, u \in Workers : w # u /\ allocation[w][r] > 0 /\ allocation[u][r] > 0

\* C3: no allocation exceeds the declared maximum claim.
C3_WithinClaim ==
    \A w \in AllWorkers : \A r \in AllResources : allocation[w][r] <= claims[w][r]

\* A worker holds its whole claim after at least two granted partial requests.
C3_Witness ==
    /\ scenario = "banker"
    /\ \E w \in Workers :
          /\ pc[w] = "release"
          /\ allocation[w] = claims[w]
          /\ \E r \in Resources : claims[w][r] >= 2

\* C9: in the Banker scenario, under fair scheduling, every worker eventually
\* has its whole claim granted, releases it and puts one record ok.
C9_BankerCompletes == <>[](AllOk /\ \A w \in Workers : allocation[w] = ZeroVector)

\* Three workers claiming one unit of each of two single-unit classes all
\* finished, one of them after a denial.
C9_Witness ==
    /\ scenario = "banker"
    /\ workers = 3
    /\ resource_count = 2
    /\ resource_units = 1
    /\ AllOk
    /\ \E w \in Workers : retries[w] > 0

\* ------------------------------------------------------- worker contracts
\* C11: no worker puts more than one record (the records of a scenario carry
\* pairwise distinct names); a worker whose run() returned has put exactly one
\* record with status ok, one whose run() raised exactly one with status erro,
\* and a terminated worker at most one.
C11_OneRecordPerWorker ==
    \A w \in AllWorkers :
        /\ Len(metrics_queue[w]) <= 1
        /\ pc[w] = "done" => metrics_queue[w] = <<"ok">>
        /\ pc[w] = "raised" => metrics_queue[w] = <<"erro">>
        /\ pc[w] = "absent" => metrics_queue[w] = <<>>

\* Two workers left run() with an exception, each with its one record erro,
\* and the parent has joined them.
C11_Witness ==
    /\ parentPc = "returned"
    /\ \E w, u \in Workers :
          /\ w # u
          /\ pc[w] = "raised" /\ metrics_queue[w] = <<"erro">>
          /\ pc[u] = "raised" /\ metrics_queue[u] = <<"erro">>

\* C12: whenever a worker puts its record it holds no lock and (Banker) no
\* allocated units: the record comes strictly after the last release, on the
\* normal path and on the exception path.
C12_RecordAfterLastRelease ==
    [][\A w \in AllWorkers :
          metrics_queue'[w] # metrics_queue[w] =>
              /\ held[w] = {} /\ held'[w] = {}
              /\ allocation[w] = ZeroVector /\ allocation'[w] = ZeroVector]_vars

\* C13: a worker that has stopped executing (run() returned, run() raised, or
\* the process was terminated) holds no lock.
C13_StoppedWorkerHoldsNothing ==
    \A w \in Workers : ~is_alive(w) => held[w] = {}

\* C18: a Banker worker's request is denied (the allocation stays as it is and
\* the denial is counted as a retry) only when, against the committed
\* allocation of that moment, it exceeds the remaining need of the process,
\* exceeds the available units, or leads to an unsafe state.
C18_NoFalseDenial ==
    [][\A w \in AllWorkers : \A req \in Requests :
          (BankerRequestOf(w, req) /\ allocation' = allocation) =>
              /\ retries'[w] = increment_retry(retries[w])
              /\ \/ \E r \in Resources : req[r] > claims[w][r] - allocation[w][r]
                 \/ \E r \in Resources : req[r] > Free(allocation, r)
                 \/ ~Safe(tentative_grant(allocation, w, req))]_vars

\* A worker denied at least twice asks for more units of a class than are
\* available while two other workers hold units.
C18_Witness ==
    /\ scenario = "banker"
    /\ \E w \in Workers :
          /\ pc[w] = "request"
          /\ retries[w] = MaxRetries
          /\ \E req \in build_request(remaining[w]) :
                \E r \in Resources : req[r] > Free(allocation, r)
          /\ \E u, v \in Workers \ {w} :
                u # v /\ allocation[u] # ZeroVector /\ allocation[v] # ZeroVector

\* ------------------------------------------------------- detector claims
\* u -> v is an edge of the wait-for graph g.
HasEdge(g, u, v) ==
    /\ u \in DOMAIN g.nbrs
    /\ \E i \in 1..Len(g.nbrs[u]) : g.nbrs[u][i] = v

\* The nodes reached from the nodes of S by at most k edges.
RECURSIVE ReachedFrom(_, _, _)
ReachedFrom(g, S, k) ==
    IF k = 0 THEN S
    ELSE ReachedFrom(g, S \cup {v \in Nodes : \E u \in S : HasEdge(g, u, v)}, k - 1)

\* g contains a directed cycle: some node is reached from its own successors.
HasCycle(g) ==
    \E u \in Nodes : u \in ReachedFrom(g, {v \in Nodes : HasEdge(g, u, v)}, MaxNodes)

\* C16: the list _find_cycle returns has at least two elements, begins and
\* ends with the same node, and each consecutive pair of it is an edge of the
\* graph.
C16_CycleSound ==
    (detection.called /\ detection.deadlock) =>
        LET c == detection.cycle
        IN /\ Len(c) >= 2
           /\ c[1] = c[Len(c)]
           /\ \A i \in 1..(Len(c) - 1) : HasEdge(graph, c[i], c[i + 1])

\* A cycle of three nodes was returned by a search that started at a node
\* outside of it.
C16_Witness ==
    /\ detection.called
    /\ detection.deadlock
    /\ Len(detection.cycle) = 4
    /\ graph.keys[1] \notin Range(detection.cycle)

\* The graph {A->B, B->C, C->A, D->B}, with A, B, C, D numbered 1 to 4.
IsExampleGraph(g) ==
    \A u, v \in Nodes :
        HasEdge(g, u, v) <=> <<u, v>> \in {<<1, 2>>, <<2, 3>>, <<3, 1>>, <<4, 2>>}

\* C17: detect_deadlock returns a cycle exactly when the graph has one,
\* whatever the iteration orders; for the example graph it is a rotation of
\* [A, B, C, A]; for an acyclic graph it returns (False, edges, []).
C17_CycleComplete ==
    detection.called =>
        /\ detection.deadlock <=> HasCycle(graph)
        /\ detection.edges = {e \in Nodes \X Nodes : HasEdge(graph, e[1], e[2])}
        /\ ~HasCycle(graph) => detection.cycle = <<>>
        /\ IsExampleGraph(graph) =>
               detection.cycle \in {<<1, 2, 3, 1>>, <<2, 3, 1, 2>>, <<3, 1, 2, 3>>}

\* The example graph searched from D first: the cycle returned starts at B.
C17_Witness ==
    /\ detection.called
    /\ IsExampleGraph(graph)
    /\ graph.keys[1] = 4
    /\ detection.cycle = <<2, 3, 1, 2>>

\* ------------------------------------------------------ simulator claims
\* Every process of the simulation is in state FINISHED.
EveryProcessFinished ==
    {processes[i].state : i \in 1..Len(processes)} \subseteq {"FINISHED"}

\* demo_scenario(): P1: [R1, R2], P2: [R2, R1], P3: [R1] over R1, R2.
IsDemo ==
    /\ DOMAIN resources = 1..2
    /\ Len(processes) = 3
    /\ processes[1].plan = <<1, 2>>
    /\ processes[2].plan = <<2, 1>>
    /\ processes[3].plan = <<1>>

\* C14: in ordered mode no tick reports a cycle and no process becomes
\* DEADLOCKED, whatever the (duplicate-free) plans; with the default max_steps
\* the run ends with every process FINISHED.
C14_OrderedNeverDeadlocks ==
    /\ [](mode = "ordered" =>
             /\ ~deadlock_found
             /\ cycle = <<>>
             /\ \A i \in 1..Len(processes) : processes[i].state # "DEADLOCKED")
    /\ (mode = "ordered" /\ max_steps = max_steps_default) =>
           <>[](simPc = "returned" /\ EveryProcessFinished)

\* The demo scenario in ordered mode ran to the end: P2 waited for R1 while
\* it was held, and all three processes are FINISHED.
C14_Witness ==
    /\ IsDemo
    /\ mode = "ordered"
    /\ simPc = "returned"
    /\ t >= 3
    /\ EveryProcessFinished

\* C15: the demo scenario in naive mode with max_steps = 50 halts on a
\* detected deadlock whose cycle is P1 and P2; both end DEADLOCKED, and P3 ends
\* FINISHED or BLOCKED and is never DEADLOCKED.
C15_DemoNaiveDeadlocks ==
    (IsDemo /\ mode = "naive" /\ max_steps = max_steps_default) =>
        /\ <>[](/\ IsDemo
                /\ simPc = "returned"
                /\ deadlock_found
                /\ Range(cycle) = {1, 2}
                /\ processes[1].state = "DEADLOCKED"
                /\ processes[2].state = "DEADLOCKED"
                /\ processes[3].state \in {"FINISHED", "BLOCKED"})
        /\ [](IsDemo => processes[3].state # "DEADLOCKED")

\* The demo run halted at its second tick with the cycle P1 -> P2 -> P1 and P3
\* blocked on R1.
C15_Witness ==
    /\ IsDemo
    /\ mode = "naive"
    /\ max_steps = max_steps_default
    /\ simPc = "returned"
    /\ cycle = <<1, 2, 1>>
    /\ processes[3].state = "BLOCKED"

\* C19: in every state of the simulator a resource is held by no process or
\* by one, and held_by of the resource names process p exactly when the
\* resource is in held_resources of p.
C19_OwnershipViewsAgree ==
    \A r \in DOMAIN resources :
        /\ Cardinality({i \in 1..Len(processes) : r \in processes[i].held_resources}) <= 1
        /\ resources[r] \in {0} \cup {processes[i].pid : i \in 1..Len(processes)}
        /\ \A i \in 1..Len(processes) :
              resources[r] = processes[i].pid <=> r \in processes[i].held_resources

\* A process has released its resources and is FINISHED while another holds
\* two resources and a third is BLOCKED.
C19_Witness ==
    \E i, j, k \in 1..Len(processes) :
        /\ processes[i].state = "FINISHED"
        /\ Cardinality(processes[j].held_resources) = 2
        /\ processes[k].state = "BLOCKED"

\* C20: run() returns, after at most max_steps ticks; a tick begins only when
\* fewer than max_steps ticks have run, no earlier tick detected a deadlock
\* and the processes are not all FINISHED; and run() returns only after a
\* deadlock, with all processes FINISHED, or after max_steps ticks.
C20_LoopStops ==
    /\ <>(simPc = "returned")
    /\ [](t <= max_steps)
    /\ [][(simPc = "run" /\ simPc' = "request") =>
             /\ t < max_steps
             /\ ~deadlock_found
             /\ ~EveryProcessFinished]_vars
    /\ [](simPc = "returned" =>
             deadlock_found \/ EveryProcessFinished \/ t = max_steps)

\* The loop ran max_steps ticks and stopped with processes unfinished and no
\* deadlock.
C20_Witness ==
    /\ simPc = "returned"
    /\ max_steps = MaxSteps
    /\ t = max_steps
    /\ ~deadlock_found
    /\ ~EveryProcessFinished

\* ---------------------------------------------------------- retry rollback
\* C21: a retry worker that sleeps in its backoff or starts a new iteration
\* holds no lock, and its retries counter goes up by one at every timed-out
\* acquisition and at no other step.
C21_RollbackBeforeBackoff ==
    /\ [](\A w \in Workers :
             (pc[w] = "backoff" \/ (pc[w] = "acquire" /\ acquired[w] = <<>>)) =>
                 /\ held[w] = {}
                 /\ \A r \in Resources : locked[r] => \E u \in Workers \ {w} : r \in held[u])
    /\ [][\A w \in AllWorkers :
             /\ RetryTimeout(w) => retries'[w] = increment_retry(retries[w])
             /\ retries'[w] # retries[w] => (RetryTimeout(w) /\ retries'[w] = retries[w] + 1)]_vars

\* A worker that held a lock when it timed out sleeps in its backoff with its
\* retry counted, while the other worker holds a lock.
C21_Witness ==
    /\ scenario = "retry"
    /\ \E w, u \in Workers :
          /\ w # u
          /\ pc[w] = "backoff"
          /\ acquired[w] # <<>>
          /\ retries[w] = 1
          /\ held[u] # {}

\* ------------------------------------------------------- wait-for graph
\* Process p waits for process q: p is BLOCKED with a pending request for a
\* resource that q, another process, holds.
WaitsFor(p, q) ==
    \E i, j \in 1..Len(processes) :
        /\ processes[i].pid = p
        /\ processes[j].pid = q
        /\ p # q
        /\ processes[i].state = "BLOCKED"
        /\ processes[i].current_request \in DOMAIN resources
        /\ resources[processes[i].current_request] = q

\* C22: the wait-for graph built at the end of a tick has the edge p -> q
\* exactly when p is BLOCKED on a resource held by another process q: no
\* self-loop, no edge to the absent holder of a free resource, no edge out of
\* a process that is not BLOCKED, and at most one edge out of a process.
C22_WaitForGraphExact ==
    simPc = "detect" =>
        \E g \in {build_wait_for_graph(processes, resources)} :
            /\ \A p, q \in 0..Len(processes) : HasEdge(g, p, q) <=> WaitsFor(p, q)
            /\ \A e \in edges_of(g) : e[1] # e[2] /\ WaitsFor(e[1], e[2])
            /\ \A u \in DOMAIN g.nbrs : Len(g.nbrs[u]) = 1
            /\ Range(g.keys) = DOMAIN g.nbrs
            /\ Len(g.keys) = Cardinality(DOMAIN g.nbrs)

\* At the end of a tick two processes are BLOCKED on a resource whose holder
\* completed and released it in that tick: neither has an edge.
C22_Witness ==
    /\ simPc = "detect"
    /\ \E i, j, k \in 1..Len(processes) :
          /\ i # j
          /\ processes[i].state = "BLOCKED"
          /\ processes[j].state = "BLOCKED"
          /\ resources[processes[i].current_request] = 0
          /\ resources[processes[j].current_request] = 0
          /\ processes[k].state = "FINISHED"

\* ---------------------------------------------------- acting in a tick
\* The positions of tick_log with a line of kind `what` printed for process p.
LinesOf(p, what) ==
    {k \in 1..Len(tick_log) : tick_log[k].pid = p /\ tick_log[k].what = what}

\* C23 as claimed: within a tick at most one process issues a request or
\* completes.
C23_OneProcessPerTick ==
    Cardinality({tick_log[k].pid : k \in 1..Len(tick_log)}) <= 1

\* C23 as amended: within a tick the processes act one after another in the
\* order of self.processes, each issuing at most one request and completing at
\* most once, a completion never before the request of the same process; any
\* number of processes may act in the same tick.
C23_ProcessesActInTurn ==
    /\ \A i \in 1..Len(processes) :
          /\ Cardinality(LinesOf(processes[i].pid, "request")) <= 1
          /\ Cardinality(LinesOf(processes[i].pid, "complete")) <= 1
          /\ \A a \in LinesOf(processes[i].pid, "request") :
                \A b \in LinesOf(processes[i].pid, "complete") : a < b
    /\ \A a, b \in 1..Len(tick_log) :
          (a < b /\ tick_log[a].what = "request" /\ tick_log[b].what = "request")
              => tick_log[a].pid < tick_log[b].pid
    /\ Len(tick_log) <= 2 * Len(processes)

\* In one tick three processes acted: one completed in the first loop, one
\* made a request and completed in the second loop, one made a request.
C23_Witness ==
    /\ simPc = "detect"
    /\ \E i, j, k \in 1..Len(processes) :
          /\ i # j /\ j # k /\ i # k
          /\ LinesOf(processes[i].pid, "request") = {}
          /\ LinesOf(processes[i].pid, "complete") # {}
          /\ LinesOf(processes[j].pid, "request") # {}
          /\ LinesOf(processes[j].pid, "complete") # {}
          /\ LinesOf(processes[k].pid, "request") # {}
          /\ LinesOf(processes[k].pid, "complete") = {}

\* ------------------------------------------------------- process states
\* C24: a process is DEADLOCKED exactly when it is on the cycle the detector
\* returned, and becomes so at that detection; a process blocked behind the
\* cycle stays BLOCKED.  A DEADLOCKED or FINISHED process never changes and
\* never issues a request or completes again, and a FINISHED process holds no
\* resource.
C24_DeadlockedIffOnCycle ==
    /\ [](\A i \in 1..Len(processes) :
             /\ processes[i].state = "DEADLOCKED" <=> processes[i].pid \in Range(cycle)
             /\ processes[i].state = "DEADLOCKED" => deadlock_found
             /\ processes[i].state = "FINISHED" =>
                   /\ processes[i].held_resources = {}
                   /\ \A r \in DOMAIN resources : resources[r] # processes[i].pid)
    /\ [](\A k \in 1..(Len(cycle) - 1) : WaitsFor(cycle[k], cycle[k + 1])
                                           \/ /\ deadlock_found
                                              /\ simPc = "returned")
    /\ [][\A i \in 1..Len(processes) :
             /\ processes[i].state \in {"DEADLOCKED", "FINISHED"} =>
                   /\ processes'[i] = processes[i]
                   /\ LinesOf(processes[i].pid, "request") \subseteq 1..Len(tick_log)
                   /\ \A k \in (1..Len(tick_log')) \ (1..Len(tick_log)) :
                         tick_log'[k].pid # processes[i].pid
             /\ (processes'[i].state = "DEADLOCKED" /\ processes[i].state # "DEADLOCKED") =>
                   /\ simPc = "detect"
                   /\ processes[i].state = "BLOCKED"
                   /\ processes'[i] = [processes[i] EXCEPT !.state = "DEADLOCKED"]
             /\ (simPc = "detect" /\ processes[i].pid \notin Range(cycle')) =>
                   processes'[i] = processes[i]]_vars

\* The run halted on a cycle with a process blocked behind a member of the
\* cycle: it is BLOCKED, the members are DEADLOCKED.
C24_Witness ==
    /\ simPc = "returned"
    /\ deadlock_found
    /\ \E i \in 1..Len(processes) :
          /\ processes[i].state = "BLOCKED"
          /\ processes[i].pid \notin Range(cycle)
          /\ resources[processes[i].current_request] \in Range(cycle)

\* ------------------------------------------------------- Banker requests
\* C25: while a Banker worker is in its request loop its local `remaining`
\* equals C[pid] - A[pid]; every request it can submit is not all zeros and has
\* 0 <= req[r] <= remaining[r]; a grant adds such a request to its allocation, a
\* denial happens only for lack of units or an unsafe state, and the worker
\* leaves the loop exactly when its allocation equals its claim.
C25_RequestsWithinNeed ==
    /\ [](scenario = "banker" =>
             \A w \in Workers : pc[w] = "request" =>
                 /\ \A r \in Resources : remaining[w][r] = claims[w][r] - allocation[w][r]
                 /\ \A req \in build_request(remaining[w]) :
                       /\ \E r \in Resources : req[r] # 0
                       /\ \A r \in Resources : 0 <= req[r] /\ req[r] <= remaining[w][r])
    /\ [][scenario = "banker" =>
             \A w \in Workers : pc[w] = "request" =>
                 /\ allocation'[w] # allocation[w] =>
                       /\ \A r \in Resources :
                             /\ allocation'[w][r] >= allocation[w][r]
                             /\ allocation'[w][r] - allocation[w][r] <= remaining[w][r]
                       /\ retries'[w] = retries[w]
                 /\ retries'[w] # retries[w] =>
                       /\ allocation' = allocation
                       /\ \E req \in Requests :
                             /\ \A r \in Resources :
                                   req[r] <= claims[w][r] - allocation[w][r]
                             /\ \E A1 \in {[allocation EXCEPT ![w] =
                                                [r \in AllResources |-> allocation[w][r] + req[r]]]} :
                                   \/ \E r \in Resources :
                                         resource_units - column_sum(A1, r, workers) < 0
                                   \/ ~ is_safe(A1)
                 /\ pc'[w] # "request" <=> allocation'[w] = claims[w]]_vars

\* A worker back in its loop after a partial grant, and a worker that was
\* denied.
C25_Witness ==
    /\ scenario = "banker"
    /\ \E w \in Workers :
          /\ pc[w] = "request"
          /\ allocation[w] # ZeroVector
          /\ remaining[w] # ZeroVector
    /\ \E w \in Workers : retries[w] > 0

\* ------------------------------------------------------- the watchdog
\* Worker w waits for a lock that worker u holds.
LockWait(w, u) ==
    /\ u # w
    /\ pc[w] = "acquire"
    /\ locked[NextLock(w)]
    /\ NextLock(w) \in held[u]

\* w is on a circular wait or blocked behind one: it belongs to a set of
\* workers each of which waits for a lock held by a worker of the set.
InOrBehindCircularWait(w) ==
    \E T \in SUBSET Workers :
        /\ w \in T
        /\ \A x \in T : \E u \in T : LockWait(x, u)

\* C26: the watchdog of the Deadlock scenario terminates a worker only when
\* the worker is in, or blocked behind, a circular wait.
C26_WatchdogSound ==
    [][\A w \in Workers :
          (pc'[w] = "killed" /\ pc[w] # "killed") => InOrBehindCircularWait(w)]_vars

\* C27: the count of completed workers given to report_progress never exceeds
\* the number of workers.
C27_CompletedWithinTotal == completed <= workers

====
